---- MODULE Spec2Model ----
(***************************************************************************)
(* Cage (Wayland kiosk), output.c: the lifecycle of the single output and  *)
(* the per-frame compositing of the view stack.                            *)
(*                                                                         *)
(* The handlers of output.c run to completion on one thread, each in       *)
(* response to a signal: backend.new_output -> handle_new_output,          *)
(* wlr_output.frame -> handle_output_frame, wlr_output.destroy ->          *)
(* handle_output_destroy.  A signal reaches a handler only while the       *)
(* handler's wl_listener is linked in the signal's listener list, so the   *)
(* listener lists are part of the state.  Every call a handler makes into  *)
(* wlroots / libwayland is appended to `calls`, the log of the dispatch of *)
(* the last emitted signal (`event`).                                      *)
(***************************************************************************)
EXTENDS Integers, Sequences, FiniteSets

VARIABLES
    new_output_link,    \* server->new_output is linked to backend->events.new_output
    heap,               \* the struct cg_output records calloc'ed so far (index = address)
    server_output,      \* server->output: NULL or the address of a record
    frame_listeners,    \* records whose frame listener is linked to the events.frame
                        \* of their wlr_output
    destroy_listeners,  \* records whose destroy listener is linked to the
                        \* events.destroy of their wlr_output
    layout,             \* server->output_layout: the outputs placed in it
    xcursor_loaded,     \* the seat's xcursor manager holds a loaded theme
    cursor,             \* the seat's cursor: position and image
    terminated,         \* number of wl_display_terminate calls so far
    faults,             \* memory-safety violations committed so far; after a null
                        \* dereference the process is gone
    views,              \* server->views, head of the list first
    event,              \* the signal emitted last
    calls               \* the library calls made while dispatching it

vars == <<new_output_link, heap, server_output, frame_listeners, destroy_listeners,
          layout, xcursor_loaded, cursor, terminated, faults, views, event, calls>>

\* ------------------------------------------------------------------ bounds
MaxViews == 2
MaxSurfaces == 3

\* --------------------------------------------------------------- constants
NULL == 0
DEFAULT_XCURSOR == "left_ptr"
CAGE_XDG_SHELL_VIEW == "CAGE_XDG_SHELL_VIEW"
CAGE_OTHER_VIEW == "CAGE_OTHER_VIEW"
WL_OUTPUT_TRANSFORM_NORMAL == 0
WL_OUTPUT_TRANSFORM_90 == 1
WL_OUTPUT_TRANSFORM_270 == 3

\* ----------------------------------------------------------------- helpers
RECURSIVE Concat(_)
\* The concatenation of a sequence of sequences.
Concat(ss) ==
    IF ss = <<>> THEN <<>> ELSE Head(ss) \o Concat(Tail(ss))

Reverse(s) ==
    [i \in 1..Len(s) |-> s[Len(s) + 1 - i]]

RECURSIVE SeqSum(_)
SeqSum(s) ==
    IF s = <<>> THEN 0 ELSE Head(s) + SeqSum(Tail(s))

Max(S) ==
    CHOOSE m \in S : \A n \in S : n <= m

\* One library call in the log.  view and surf name the surface a draw or a
\* frame-done is for (0 where they do not apply); arg holds the integer arguments.
Call(op, view, surf, arg) ==
    [op |-> op, view |-> view, surf |-> surf, arg |-> arg]

\* ------------------------------------------------------ the backend device
M720 == [width |-> 1280, height |-> 720]
M1080 == [width |-> 1920, height |-> 1080]

\* The mode lists a device may advertise (wlr_output->modes, in list order).
ModeLists ==
    {<<>>, <<M720, M1080>>, <<M1080, M720>>}

\* A wlr_output as the backend announces it: a device with modes has no
\* dimensions until a mode is set, a device without modes has them preset;
\* scale is 1 and nothing in this program changes it.
wlr_output_init(modes) ==
    [modes |-> modes,
     current_mode |-> <<>>,
     width |-> IF modes = <<>> THEN 1024 ELSE 0,
     height |-> IF modes = <<>> THEN 768 ELSE 0,
     scale |-> 1]

Devices ==
    {wlr_output_init(ml) : ml \in ModeLists}

wlr_output_set_mode(o, mode) ==
    [o EXCEPT !.current_mode = <<mode>>, !.width = mode.width, !.height = mode.height]

\* wlr_output_effective_resolution with the untransformed output of this program.
wlr_output_effective_resolution(o) ==
    <<o.width \div o.scale, o.height \div o.scale>>

\* wlr_output_layout_add_auto: the new output goes to the right of the
\* outputs already in the layout, at y = 0.
wlr_output_layout_add_auto(l, id, o) ==
    LET right == {l[i].x + l[i].width : i \in 1..Len(l)}
    IN  Append(l, [output |-> id,
                   x |-> IF l = <<>> THEN 0 ELSE Max(right),
                   y |-> 0,
                   width |-> o.width])

\* wlr_output_layout_output_coords adjusts layout coordinates to coordinates
\* local to the output: the origin of the output in the layout is taken off;
\* (x, y) is unchanged when the output is not in the layout.  The one output
\* of this program is at the origin of the layout, where the call leaves
\* (x, y) as they are.
wlr_output_layout_output_coords(l, id, x, y) ==
    IF \E i \in 1..Len(l) : l[i].output = id
    THEN LET e == l[CHOOSE i \in 1..Len(l) : l[i].output = id]
         IN  <<x - e.x, y - e.y>>
    ELSE <<x, y>>

wlr_output_transform_invert(t) ==
    IF t = WL_OUTPUT_TRANSFORM_90 THEN WL_OUTPUT_TRANSFORM_270
    ELSE IF t = WL_OUTPUT_TRANSFORM_270 THEN WL_OUTPUT_TRANSFORM_90
    ELSE t

\* ------------------------------------------------------------ the view stack
\* Committed state of a surface: no buffer; a buffer whose texture cannot be
\* obtained; a buffer with its texture.
SurfaceStates ==
    {[has_buffer |-> FALSE, has_texture |-> FALSE],
     [has_buffer |-> TRUE, has_texture |-> FALSE],
     [has_buffer |-> TRUE, has_texture |-> TRUE]}

\* Surface k of a view's tree: the root surface sits at offset (0, 0), a
\* sub-surface at an offset from it.
Surface(k, st) ==
    IF k = 1
    THEN [has_buffer |-> st.has_buffer, has_texture |-> st.has_texture,
          sx |-> 0, sy |-> 0, width |-> 4, height |-> 3,
          transform |-> WL_OUTPUT_TRANSFORM_NORMAL]
    ELSE [has_buffer |-> st.has_buffer, has_texture |-> st.has_texture,
          sx |-> k, sy |-> 2 * k, width |-> 2, height |-> 1,
          transform |-> WL_OUTPUT_TRANSFORM_90]

\* The surface trees of at most n surfaces, in the walk's visiting order.
SurfaceTrees(n) ==
    UNION {{[k \in 1..m |-> Surface(k, f[k])] : f \in [1..m -> SurfaceStates]} : m \in 1..n}

ViewPositions ==
    {<<3, 1>>}

TotalSurfaces(vs) ==
    SeqSum([i \in 1..Len(vs) |-> Len(vs[i].surfaces)])

FreeViewId(vs) ==
    CHOOSE id \in 1..MaxViews :
        /\ \A i \in 1..Len(vs) : vs[i].id # id
        /\ \A j \in 1..(id - 1) : \E i \in 1..Len(vs) : vs[i].id = j

\* wl_list_insert(&server->views, &view->link): the new view becomes the head.
MapView(v) ==
    /\ Len(views) < MaxViews
    /\ TotalSurfaces(views) + Len(v.surfaces) <= MaxSurfaces
    /\ views' = <<v>> \o views
    /\ event' = "view"
    /\ calls' = <<>>
    /\ UNCHANGED <<new_output_link, heap, server_output, frame_listeners,
                   destroy_listeners, layout, xcursor_loaded, cursor, terminated, faults>>

\* The views a client may map now.
NewViews ==
    IF Len(views) >= MaxViews THEN {} ELSE
    LET id == FreeViewId(views)
        room == MaxSurfaces - TotalSurfaces(views)
    IN  {[id |-> id, type |-> CAGE_XDG_SHELL_VIEW, x |-> p[1], y |-> p[2], surfaces |-> t] :
            p \in ViewPositions, t \in SurfaceTrees(room)}
        \cup
        {[id |-> id, type |-> CAGE_OTHER_VIEW, x |-> p[1], y |-> p[2], surfaces |-> t] :
            p \in ViewPositions, t \in SurfaceTrees(room)}

\* The view at position i is moved to the head of the stack.
RaiseView(i) ==
    /\ i \in 2..Len(views)
    /\ views' = <<views[i]>> \o SubSeq(views, 1, i - 1) \o SubSeq(views, i + 1, Len(views))
    /\ event' = "view"
    /\ calls' = <<>>
    /\ UNCHANGED <<new_output_link, heap, server_output, frame_listeners,
                   destroy_listeners, layout, xcursor_loaded, cursor, terminated, faults>>

\* ---------------------------------------------------------------- rendering
\* Mutant of render_surface: the check of the texture is missing.
render_surface_no_texture_check(v, k, id) ==
    LET surface == v.surfaces[k]
        output == heap[id].wlr_output
        o == wlr_output_layout_output_coords(layout, id, 0, 0)
        ox == o[1] + v.x + surface.sx
        oy == o[2] + v.y + surface.sy
        box == <<ox * output.scale, oy * output.scale,
                 surface.width * output.scale, surface.height * output.scale>>
        transform == wlr_output_transform_invert(surface.transform)
    IN  IF ~surface.has_buffer THEN <<>>
        ELSE <<Call("render_texture", v.id, k, box \o <<transform>>),
               Call("frame_done", v.id, k, <<>>)>>

\* Mutant of render_surface: frame-done is sent on every path.
render_surface_frame_done_always(v, k, id) ==
    LET surface == v.surfaces[k]
        output == heap[id].wlr_output
        o == wlr_output_layout_output_coords(layout, id, 0, 0)
        ox == o[1] + v.x + surface.sx
        oy == o[2] + v.y + surface.sy
        box == <<ox * output.scale, oy * output.scale,
                 surface.width * output.scale, surface.height * output.scale>>
        transform == wlr_output_transform_invert(surface.transform)
    IN  IF ~surface.has_buffer THEN <<Call("frame_done", v.id, k, <<>>)>>
        ELSE IF ~surface.has_texture
        THEN <<Call("log_debug", v.id, k, <<>>), Call("frame_done", v.id, k, <<>>)>>
        ELSE <<Call("render_texture", v.id, k, box \o <<transform>>),
               Call("frame_done", v.id, k, <<>>)>>

\* Mutant of render_surface: the position of the view is not added.
render_surface_no_view_position(v, k, id) ==
    LET surface == v.surfaces[k]
        output == heap[id].wlr_output
        o == wlr_output_layout_output_coords(layout, id, 0, 0)
        ox == o[1] + surface.sx
        oy == o[2] + surface.sy
        box == <<ox * output.scale, oy * output.scale,
                 surface.width * output.scale, surface.height * output.scale>>
        transform == wlr_output_transform_invert(surface.transform)
    IN  IF ~surface.has_buffer THEN <<>>
        ELSE IF ~surface.has_texture
        THEN <<Call("log_debug", v.id, k, <<>>)>>
        ELSE <<Call("render_texture", v.id, k, box \o <<transform>>),
               Call("frame_done", v.id, k, <<>>)>>

\* render_surface: the calls made for surface k of view v on output record id.
render_surface(v, k, id) ==
    LET surface == v.surfaces[k]
        output == heap[id].wlr_output
        o == wlr_output_layout_output_coords(layout, id, 0, 0)
        ox == o[1] + v.x + surface.sx
        oy == o[2] + v.y + surface.sy
        box == <<ox * output.scale, oy * output.scale,
                 surface.width * output.scale, surface.height * output.scale>>
        transform == wlr_output_transform_invert(surface.transform)
    IN  IF ~surface.has_buffer THEN <<>>
        ELSE IF ~surface.has_texture
        THEN <<Call("log_debug", v.id, k, <<>>)>>
        ELSE <<Call("render_texture", v.id, k, box \o <<transform>>),
               Call("frame_done", v.id, k, <<>>)>>

\* Mutant of view_for_each_surface: the default case logs and walks the
\* surfaces all the same.
view_for_each_surface_walks_unknown(v, id) ==
    IF v.type = CAGE_XDG_SHELL_VIEW
    THEN Concat([k \in 1..Len(v.surfaces) |-> render_surface(v, k, id)])
    ELSE <<Call("log_error", v.id, 0, <<>>)>>
         \o Concat([k \in 1..Len(v.surfaces) |-> render_surface(v, k, id)])

\* view_for_each_surface with render_surface as the iterator.
view_for_each_surface(v, id) ==
    IF v.type = CAGE_XDG_SHELL_VIEW
    THEN Concat([k \in 1..Len(v.surfaces) |-> render_surface(v, k, id)])
    ELSE <<Call("log_error", v.id, 0, <<>>)>>

\* Mutant of RenderViews: wl_list_for_each, from the head to the tail.
RenderViews_forward(id) ==
    Concat([i \in 1..Len(views) |-> view_for_each_surface(views[i], id)])

\* wl_list_for_each_reverse over server->views: from the tail to the head.
RenderViews(id) ==
    LET order == Reverse(views)
    IN  Concat([i \in 1..Len(order) |-> view_for_each_surface(order[i], id)])

\* Mutant of ClearColor: opaque black.
ClearColor_black ==
    <<0, 0, 0, 10>>

\* float color[4] = {0.3, 0.3, 0.3, 1.0}, in tenths.
ClearColor ==
    <<3, 3, 3, 10>>

UseAfterFree(id) ==
    IF heap[id].frees > 0 THEN {"use_after_free"} ELSE {}

\* Mutant of handle_output_frame: the return after the failed make_current is
\* missing, the render pass runs all the same.
handle_output_frame_no_return(id, made_current) ==
    /\ id \in frame_listeners
    /\ LET res == wlr_output_effective_resolution(heap[id].wlr_output)
       IN  calls' =
             (IF ~made_current
              THEN <<Call("make_current", 0, 0, <<0>>), Call("log_debug", 0, 0, <<>>)>>
              ELSE <<Call("make_current", 0, 0, <<1>>)>>)
             \o <<Call("begin", 0, 0, res),
                   Call("clear", 0, 0, ClearColor)>>
             \o RenderViews(id)
             \o <<Call("end", 0, 0, <<>>), Call("swap_buffers", 0, 0, <<>>)>>
    /\ event' = "frame"
    /\ faults' = faults \cup UseAfterFree(id)
    /\ UNCHANGED <<new_output_link, heap, server_output, frame_listeners,
                   destroy_listeners, layout, xcursor_loaded, cursor, terminated, views>>

\* Mutant of handle_output_frame: wlr_renderer_end is missing.
handle_output_frame_no_end(id, made_current) ==
    /\ id \in frame_listeners
    /\ LET res == wlr_output_effective_resolution(heap[id].wlr_output)
       IN  calls' =
             IF ~made_current
             THEN <<Call("make_current", 0, 0, <<0>>), Call("log_debug", 0, 0, <<>>)>>
             ELSE <<Call("make_current", 0, 0, <<1>>),
                    Call("begin", 0, 0, res),
                    Call("clear", 0, 0, ClearColor)>>
                  \o RenderViews(id)
                  \o <<Call("swap_buffers", 0, 0, <<>>)>>
    /\ event' = "frame"
    /\ faults' = faults \cup UseAfterFree(id)
    /\ UNCHANGED <<new_output_link, heap, server_output, frame_listeners,
                   destroy_listeners, layout, xcursor_loaded, cursor, terminated, views>>

\* Mutant of handle_output_frame: the loop unlinks the views it has rendered.
handle_output_frame_unlinks_views(id, made_current) ==
    /\ id \in frame_listeners
    /\ LET res == wlr_output_effective_resolution(heap[id].wlr_output)
       IN  calls' =
             IF ~made_current
             THEN <<Call("make_current", 0, 0, <<0>>), Call("log_debug", 0, 0, <<>>)>>
             ELSE <<Call("make_current", 0, 0, <<1>>),
                    Call("begin", 0, 0, res),
                    Call("clear", 0, 0, ClearColor)>>
                  \o RenderViews(id)
                  \o <<Call("end", 0, 0, <<>>), Call("swap_buffers", 0, 0, <<>>)>>
    /\ event' = "frame"
    /\ faults' = faults \cup UseAfterFree(id)
    /\ UNCHANGED <<new_output_link, heap, server_output, frame_listeners,
                   destroy_listeners, layout, xcursor_loaded, cursor, terminated>>
    /\ views' = IF made_current THEN <<>> ELSE views

handle_output_frame(id, made_current) ==
    /\ id \in frame_listeners
    /\ LET res == wlr_output_effective_resolution(heap[id].wlr_output)
       IN  calls' =
             IF ~made_current
             THEN <<Call("make_current", 0, 0, <<0>>), Call("log_debug", 0, 0, <<>>)>>
             ELSE <<Call("make_current", 0, 0, <<1>>),
                    Call("begin", 0, 0, res),
                    Call("clear", 0, 0, ClearColor)>>
                  \o RenderViews(id)
                  \o <<Call("end", 0, 0, <<>>), Call("swap_buffers", 0, 0, <<>>)>>
    /\ event' = "frame"
    /\ faults' = faults \cup UseAfterFree(id)
    /\ UNCHANGED <<new_output_link, heap, server_output, frame_listeners,
                   destroy_listeners, layout, xcursor_loaded, cursor, terminated, views>>

\* ------------------------------------------------------------------ teardown
\* What handle_output_destroy works on, at its entry: the server's reference,
\* the listener lists, the frees of the record, the terminate count, the log.
DestroyEntry(id) ==
    [output |-> server_output, destroy |-> destroy_listeners, frame |-> frame_listeners,
     frees |-> heap[id].frees, terminated |-> terminated, log |-> <<>>]

\* wl_list_remove(&output->destroy.link)
ListRemoveDestroy(s, id) ==
    [s EXCEPT !.destroy = @ \ {id},
              !.log = Append(@, Call("list_remove_destroy", 0, 0, <<id>>))]

\* wl_list_remove(&output->frame.link)
ListRemoveFrame(s, id) ==
    [s EXCEPT !.frame = @ \ {id},
              !.log = Append(@, Call("list_remove_frame", 0, 0, <<id>>))]

\* free(output)
Free(s, id) ==
    [s EXCEPT !.frees = @ + 1, !.log = Append(@, Call("free", 0, 0, <<id>>))]

\* server->output = NULL
ClearServerOutput(s) ==
    [s EXCEPT !.output = NULL]

\* wl_display_terminate(server->wl_display); the log entry holds what the
\* server holds at the call: its output reference, whether the record's
\* destroy and frame listeners are linked, the frees of the record.
DisplayTerminate(s, id) ==
    [s EXCEPT !.terminated = @ + 1,
              !.log = Append(@, Call("display_terminate", 0, 0,
                                     <<s.output,
                                       IF id \in s.destroy THEN 1 ELSE 0,
                                       IF id \in s.frame THEN 1 ELSE 0,
                                       s.frees>>))]

\* Mutant of DestroySteps: wl_list_remove(&output->destroy.link) is missing.
DestroySteps_keeps_destroy_link(id) ==
    DisplayTerminate(
        ClearServerOutput(Free(ListRemoveFrame(DestroyEntry(id), id), id)), id)

\* Mutant of DestroySteps: wl_list_remove(&output->frame.link) is missing.
DestroySteps_keeps_frame_link(id) ==
    DisplayTerminate(
        ClearServerOutput(Free(ListRemoveDestroy(DestroyEntry(id), id), id)), id)

\* Mutant of DestroySteps: server->output = NULL is missing.
DestroySteps_keeps_reference(id) ==
    DisplayTerminate(
        Free(ListRemoveFrame(ListRemoveDestroy(DestroyEntry(id), id), id), id), id)

\* Mutant of DestroySteps: wl_display_terminate is called first.
DestroySteps_terminate_first(id) ==
    ClearServerOutput(
        Free(ListRemoveFrame(ListRemoveDestroy(DisplayTerminate(DestroyEntry(id), id),
                                               id), id), id))

\* The statements of handle_output_destroy in their order.
DestroySteps(id) ==
    DisplayTerminate(
        ClearServerOutput(
            Free(ListRemoveFrame(ListRemoveDestroy(DestroyEntry(id), id), id), id)), id)

handle_output_destroy(id) ==
    /\ id \in destroy_listeners
    /\ LET s == DestroySteps(id)
       IN  /\ destroy_listeners' = s.destroy
           /\ frame_listeners' = s.frame
           /\ heap' = [heap EXCEPT ![id].frees = s.frees]
           /\ server_output' = s.output
           /\ terminated' = s.terminated
           /\ calls' = s.log
    /\ faults' = faults \cup UseAfterFree(id)
                        \cup (IF heap[id].frees > 0 THEN {"double_free"} ELSE {})
    /\ event' = "destroy"
    /\ UNCHANGED <<new_output_link, layout, xcursor_loaded, cursor, views>>

\* -------------------------------------------------------------------- attach
\* wl_container_of(wlr_output->modes.prev, mode, link): the last mode of the list.
SelectMode(modes) ==
    modes[Len(modes)]

\* The arguments of wlr_cursor_warp.
WarpTarget(o) ==
    <<o.width \div 2, o.height \div 2>>

\* The call of wlr_output_set_mode a device with modes gets: the mode asked
\* for and whether the backend applied it (the handler ignores the result).
SetModeCall(dev, mode_ok) ==
    IF dev.modes = <<>> THEN <<>>
    ELSE <<Call("set_mode", 0, 0,
                <<SelectMode(dev.modes).width, SelectMode(dev.modes).height,
                  IF mode_ok THEN 1 ELSE 0>>)>>

\* Mutant of handle_new_output: wl_list_remove(&server->new_output.link) is missing.
handle_new_output_keeps_link(dev, mode_ok, alloc_ok, theme_ok) ==
    /\ new_output_link
    /\ LET has_modes == dev.modes # <<>>
           wlr_output == IF has_modes /\ mode_ok
                         THEN wlr_output_set_mode(dev, SelectMode(dev.modes))
                         ELSE dev
           id == Len(heap) + 1
           loaded == xcursor_loaded \/ theme_ok
           warp == WarpTarget(wlr_output)
       IN  IF ~alloc_ok
           THEN /\ server_output' = NULL
                /\ faults' = faults \cup {"null_dereference"}
                /\ calls' = SetModeCall(dev, mode_ok) \o <<Call("calloc", 0, 0, <<NULL>>)>>
                /\ UNCHANGED <<new_output_link, heap, frame_listeners, destroy_listeners,
                               layout, xcursor_loaded, cursor>>
           ELSE /\ heap' = Append(heap, [wlr_output |-> wlr_output, frees |-> 0])
                /\ server_output' = id
                /\ frame_listeners' = frame_listeners \cup {id}
                /\ destroy_listeners' = destroy_listeners \cup {id}
                /\ layout' = wlr_output_layout_add_auto(layout, id, wlr_output)
                /\ new_output_link' = new_output_link
                /\ xcursor_loaded' = loaded
                /\ cursor' = [image |-> IF loaded THEN DEFAULT_XCURSOR ELSE cursor.image,
                              x |-> warp[1], y |-> warp[2]]
                /\ faults' = faults
                /\ calls' =
                     SetModeCall(dev, mode_ok)
                     \o <<Call("calloc", 0, 0, <<id>>),
                          Call("layout_add_auto", 0, 0, <<>>),
                          Call("xcursor_load", 0, 0,
                               <<wlr_output.scale, IF theme_ok THEN 0 ELSE 1>>)>>
                     \o (IF theme_ok THEN <<>> ELSE <<Call("log_error", 0, 0, <<>>)>>)
                     \o <<Call("set_cursor_image", 0, 0, <<>>),
                          Call("cursor_warp", 0, 0, warp)>>
    /\ event' = "new_output"
    /\ UNCHANGED <<terminated, views>>

\* Mutant of handle_new_output: the handler returns after logging the failed
\* theme load.
handle_new_output_theme_fatal(dev, mode_ok, alloc_ok, theme_ok) ==
    /\ new_output_link
    /\ LET has_modes == dev.modes # <<>>
           wlr_output == IF has_modes /\ mode_ok
                         THEN wlr_output_set_mode(dev, SelectMode(dev.modes))
                         ELSE dev
           id == Len(heap) + 1
           loaded == xcursor_loaded \/ theme_ok
           warp == WarpTarget(wlr_output)
       IN  IF ~alloc_ok
           THEN /\ server_output' = NULL
                /\ faults' = faults \cup {"null_dereference"}
                /\ calls' = SetModeCall(dev, mode_ok) \o <<Call("calloc", 0, 0, <<NULL>>)>>
                /\ UNCHANGED <<new_output_link, heap, frame_listeners, destroy_listeners,
                               layout, xcursor_loaded, cursor>>
           ELSE /\ heap' = Append(heap, [wlr_output |-> wlr_output, frees |-> 0])
                /\ server_output' = id
                /\ frame_listeners' = frame_listeners \cup {id}
                /\ destroy_listeners' = destroy_listeners \cup {id}
                /\ layout' = wlr_output_layout_add_auto(layout, id, wlr_output)
                /\ new_output_link' = FALSE
                /\ xcursor_loaded' = loaded
                /\ cursor' = IF theme_ok
                             THEN [image |-> DEFAULT_XCURSOR, x |-> warp[1], y |-> warp[2]]
                             ELSE cursor
                /\ faults' = faults
                /\ calls' =
                     SetModeCall(dev, mode_ok)
                     \o <<Call("calloc", 0, 0, <<id>>),
                          Call("layout_add_auto", 0, 0, <<>>),
                          Call("xcursor_load", 0, 0,
                               <<wlr_output.scale, IF theme_ok THEN 0 ELSE 1>>)>>
                     \o (IF theme_ok
                         THEN <<Call("set_cursor_image", 0, 0, <<>>),
                                Call("cursor_warp", 0, 0, warp)>>
                         ELSE <<Call("log_error", 0, 0, <<>>)>>)
    /\ event' = "new_output"
    /\ UNCHANGED <<terminated, views>>

\* mode_ok: wlr_output_set_mode applies the mode; alloc_ok: calloc returns a
\* record; theme_ok: wlr_xcursor_manager_load returns 0.  The result of calloc
\* is not checked: with NULL the store through server->output is a null
\* dereference, and the process ends there in every build (a trap of the
\* sanitizer or SIGSEGV), the mode already asked for, nothing else done.
handle_new_output(dev, mode_ok, alloc_ok, theme_ok) ==
    /\ new_output_link
    /\ LET has_modes == dev.modes # <<>>
           wlr_output == IF has_modes /\ mode_ok
                         THEN wlr_output_set_mode(dev, SelectMode(dev.modes))
                         ELSE dev
           id == Len(heap) + 1
           loaded == xcursor_loaded \/ theme_ok
           warp == WarpTarget(wlr_output)
       IN  IF ~alloc_ok
           THEN /\ server_output' = NULL
                /\ faults' = faults \cup {"null_dereference"}
                /\ calls' = SetModeCall(dev, mode_ok) \o <<Call("calloc", 0, 0, <<NULL>>)>>
                /\ UNCHANGED <<new_output_link, heap, frame_listeners, destroy_listeners,
                               layout, xcursor_loaded, cursor>>
           ELSE /\ heap' = Append(heap, [wlr_output |-> wlr_output, frees |-> 0])
                /\ server_output' = id
                /\ frame_listeners' = frame_listeners \cup {id}
                /\ destroy_listeners' = destroy_listeners \cup {id}
                /\ layout' = wlr_output_layout_add_auto(layout, id, wlr_output)
                /\ new_output_link' = FALSE
                /\ xcursor_loaded' = loaded
                /\ cursor' = [image |-> IF loaded THEN DEFAULT_XCURSOR ELSE cursor.image,
                              x |-> warp[1], y |-> warp[2]]
                /\ faults' = faults
                /\ calls' =
                     SetModeCall(dev, mode_ok)
                     \o <<Call("calloc", 0, 0, <<id>>),
                          Call("layout_add_auto", 0, 0, <<>>),
                          Call("xcursor_load", 0, 0,
                               <<wlr_output.scale, IF theme_ok THEN 0 ELSE 1>>)>>
                     \o (IF theme_ok THEN <<>> ELSE <<Call("log_error", 0, 0, <<>>)>>)
                     \o <<Call("set_cursor_image", 0, 0, <<>>),
                          Call("cursor_warp", 0, 0, warp)>>
    /\ event' = "new_output"
    /\ UNCHANGED <<terminated, views>>

\* ------------------------------------------------------------ signal emission
\* The process runs: it has not ended in a null dereference.
Running ==
    "null_dereference" \notin faults

\* wl_signal_emit on a signal no listener is linked to: nothing runs.
Undelivered(signal) ==
    /\ event' = signal
    /\ calls' = <<>>
    /\ UNCHANGED <<new_output_link, heap, server_output, frame_listeners,
                   destroy_listeners, layout, xcursor_loaded, cursor, terminated,
                   faults, views>>

NewOutputHandled ==
    /\ Running
    /\ \E dev \in Devices, mode_ok, alloc_ok, theme_ok \in BOOLEAN :
          handle_new_output(dev, mode_ok, alloc_ok, theme_ok)

NewOutputDropped ==
    Running /\ ~new_output_link /\ Undelivered("new_output")

\* The frame signal of the device the record listens to.
FrameHandled ==
    /\ Running
    /\ \E id \in frame_listeners, made_current \in BOOLEAN : handle_output_frame(id, made_current)

\* The frame signal of a device whose events.frame holds no listener: a device
\* other than the attached one (each wlr_output has its own listener lists), or
\* the attached one once its listener is unlinked.
FrameDropped ==
    Running /\ Undelivered("frame")

\* The destroy signal of the device the record listens to.
DestroyHandled ==
    /\ Running
    /\ \E id \in destroy_listeners : handle_output_destroy(id)

\* The destroy signal of a device whose events.destroy holds no listener.
DestroyDropped ==
    Running /\ Undelivered("destroy")

ViewMapped ==
    /\ Running
    /\ \E v \in NewViews : MapView(v)

ViewRaised ==
    /\ Running
    /\ \E i \in 1..Len(views) : RaiseView(i)

Init ==
    /\ new_output_link = TRUE
    /\ heap = <<>>
    /\ server_output = NULL
    /\ frame_listeners = {}
    /\ destroy_listeners = {}
    /\ layout = <<>>
    /\ xcursor_loaded \in BOOLEAN
    /\ cursor = [image |-> IF xcursor_loaded THEN DEFAULT_XCURSOR ELSE "", x |-> 0, y |-> 0]
    /\ terminated = 0
    /\ faults = {}
    /\ views = <<>>
    /\ event = "none"
    /\ calls = <<>>

Next ==
    \/ NewOutputHandled
    \/ NewOutputDropped
    \/ FrameHandled
    \/ FrameDropped
    \/ DestroyHandled
    \/ DestroyDropped
    \/ ViewMapped
    \/ ViewRaised

Spec == Init /\ [][Next]_vars

\* ------------------------------------------------------------------ lifecycle
LiveRecords ==
    {i \in 1..Len(heap) : heap[i].frees = 0}

\* Unclaimed: no Output record was ever allocated; Active: an Output record
\* is allocated and not released; Destroyed: every record was released.
Lifecycle ==
    IF heap = <<>> THEN "Unclaimed"
    ELSE IF LiveRecords # {} THEN "Active"
    ELSE "Destroyed"

\* ------------------------------------------------------------------- claims
Ops(op) ==
    {i \in 1..Len(calls) : calls[i].op = op}

\* The signal emitted last reached its handler.
Handled(signal) ==
    event = signal /\ calls # <<>>

\* The last signal was a refresh tick whose make_current succeeded.
RenderPassRan ==
    Handled("frame") /\ calls[1] = Call("make_current", 0, 0, <<1>>)

\* The last signal was a refresh tick whose make_current was refused.
RenderPassRefused ==
    Handled("frame") /\ calls[1] = Call("make_current", 0, 0, <<0>>)

\* The surfaces the surface walk visits in a tick: <<view id, index>>.
VisitedSurfaces ==
    UNION {{<<views[i].id, k>> : k \in 1..Len(views[i].surfaces)} :
             i \in {n \in 1..Len(views) : views[n].type = CAGE_XDG_SHELL_VIEW}}

CallsFor(op, id, k) ==
    {i \in Ops(op) : calls[i].view = id /\ calls[i].surf = k}

StackPos(id) ==
    CHOOSE i \in 1..Len(views) : views[i].id = id

RenderOps ==
    {"make_current", "begin", "clear", "render_texture", "frame_done", "end", "swap_buffers"}

\* C1: in a tick whose render pass runs, every surface the walk visits gets
\* frame-done exactly once, drawn or not.
C1_FrameDoneEverySurface ==
    RenderPassRan =>
        \A s \in VisitedSurfaces : Cardinality(CallsFor("frame_done", s[1], s[2])) = 1

\* C2: device-removed tears down once: the handler moves Active to Destroyed,
\* releases the record once and terminates the event loop once; a further
\* device-removed signal finds no listener and does nothing; no released
\* record is ever accessed.
C2_TeardownOnce ==
    /\ terminated <= 1
    /\ faults \cap {"use_after_free", "double_free"} = {}
    /\ \A i \in 1..Len(heap) : heap[i].frees <= 1
    /\ \A i \in destroy_listeners : heap[i].frees = 0
    /\ Handled("destroy") =>
           /\ Lifecycle = "Destroyed"
           /\ Cardinality(Ops("display_terminate")) = 1
    /\ Lifecycle = "Destroyed" =>
           /\ terminated = 1
           /\ server_output = NULL
           /\ destroy_listeners = {}
    /\ Lifecycle # "Destroyed" => terminated = 0

\* A second device-removed signal was emitted after the teardown and did nothing.
C2_SecondRemovalDropped ==
    /\ Lifecycle = "Destroyed"
    /\ event = "destroy"
    /\ calls = <<>>
    /\ terminated = 1
    /\ heap[1].frees = 1

\* C3: at most one Output record exists; once the first device-attach is
\* handled the attach listener is unlinked, so a later device-attach creates
\* no second record and does not replace the first.
C3_SingleOutput ==
    /\ Len(heap) <= 1
    /\ Cardinality(LiveRecords) <= 1
    /\ heap # <<>> => ~new_output_link
    /\ heap = <<>> => new_output_link
    /\ server_output \in {NULL} \cup LiveRecords
    /\ Len(layout) <= 1

\* A device-attach signal emitted while the Output exists reached no handler.
C3_LaterAttachDropped ==
    /\ Lifecycle = "Active"
    /\ event = "new_output"
    /\ calls = <<>>
    /\ server_output = 1

\* C4: within a tick the draws are issued back to front: a view nearer the
\* head of the stack is drawn after every view farther from it, the head last.
C4_BackToFront ==
    RenderPassRan =>
        \A i, j \in Ops("render_texture") :
            i < j => StackPos(calls[i].view) >= StackPos(calls[j].view)

\* View 1 was mapped before view 2 and raised to the head later; the tick drew
\* view 2 before view 1.
C4_RaisedDrawnLast ==
    /\ RenderPassRan
    /\ Len(views) = 2
    /\ views[1].id = 1
    /\ \E i, j \in Ops("render_texture") :
           i < j /\ calls[i].view = 2 /\ calls[j].view = 1

\* C5: a render pass runs only while the lifecycle is Active: none before the
\* first device-attach, and after the teardown the frame listener is unlinked
\* (it was unlinked by the handler that released the record), so a refresh
\* tick reaches no handler.
C5_RenderOnlyWhileActive ==
    /\ (\E i \in 1..Len(calls) : calls[i].op \in RenderOps) =>
           event = "frame" /\ Lifecycle = "Active"
    /\ Lifecycle # "Active" => frame_listeners = {}
    /\ \A i \in frame_listeners : heap[i].frees = 0
    /\ (event = "frame" /\ Lifecycle # "Active") => calls = <<>>

\* A refresh tick was emitted after the teardown and reached no handler.
C5_TickAfterDestroyDropped ==
    /\ Lifecycle = "Destroyed"
    /\ event = "frame"
    /\ calls = <<>>

\* The surfaces of a view stack that have a buffer and a texture.
DrawableSurfaces(vs) ==
    UNION {{<<vs[i].id, k>> : k \in {n \in 1..Len(vs[i].surfaces) :
                                  vs[i].surfaces[n].has_buffer /\ vs[i].surfaces[n].has_texture}} :
             i \in {n \in 1..Len(vs) : vs[n].type = CAGE_XDG_SHELL_VIEW}}

OpsIn(c, op) ==
    {i \in 1..Len(c) : c[i].op = op}

\* The log c is a complete render pass over the stack vs: begin, clear, one
\* draw for each drawable surface, end, swap.
FullRender(c, vs) ==
    /\ Len(c) >= 5
    /\ OpsIn(c, "begin") = {2}
    /\ OpsIn(c, "clear") = {3}
    /\ OpsIn(c, "end") = {Len(c) - 1}
    /\ OpsIn(c, "swap_buffers") = {Len(c)}
    /\ {<<c[i].view, c[i].surf>> : i \in OpsIn(c, "render_texture")} = DrawableSurfaces(vs)
    /\ Cardinality(OpsIn(c, "render_texture")) = Cardinality(DrawableSurfaces(vs))

\* C6: a tick whose make_current is refused logs and returns: no begin, clear,
\* draw, frame-done or swap, and nothing of the lifecycle, the record, the
\* listeners or the views changes; every tick, whatever the ticks before it
\* did, starts with make_current and renders fully when it succeeds.
C6_TransientFailure ==
    [][(event' = "frame" /\ calls' # <<>>) =>
          /\ calls'[1].op = "make_current"
          /\ Lifecycle' = "Active"
          /\ server_output' \in frame_listeners'
          /\ calls'[1].arg = <<0>> =>
                /\ calls' = <<Call("make_current", 0, 0, <<0>>), Call("log_debug", 0, 0, <<>>)>>
                /\ UNCHANGED <<new_output_link, heap, server_output, frame_listeners,
                               destroy_listeners, layout, xcursor_loaded, cursor,
                               terminated, faults, views>>
          /\ calls'[1].arg # <<0>> =>
                /\ calls'[1].arg = <<1>>
                /\ FullRender(calls', views')]_vars

\* A tick was refused while the stack held a drawable surface.
C6_RefusedTick ==
    /\ RenderPassRefused
    /\ DrawableSurfaces(views) # {}
    /\ Len(calls) = 2
    /\ server_output \in frame_listeners

\* C7: the lifecycle leaves Unclaimed only for Active and only by a handled
\* device-attach, leaves Active only for Destroyed and only by a handled
\* device-removed, and never leaves Destroyed: no signal, handled or not,
\* brings it back to Unclaimed or from Destroyed to Active.
C7_LifecyclePath ==
    [][/\ Lifecycle = "Unclaimed" =>
             \/ Lifecycle' = "Unclaimed"
             \/ Lifecycle' = "Active" /\ event' = "new_output" /\ calls' # <<>>
       /\ Lifecycle = "Active" =>
             \/ Lifecycle' = "Active"
             \/ Lifecycle' = "Destroyed" /\ event' = "destroy" /\ calls' # <<>>
       /\ Lifecycle = "Destroyed" => Lifecycle' = "Destroyed"]_vars

\* A device-attach signal was emitted after the teardown and changed nothing.
C7_AttachAfterDestroyDropped ==
    /\ Lifecycle = "Destroyed"
    /\ event = "new_output"
    /\ calls = <<>>
    /\ terminated = 1

\* C8: the attach handler asks for the last mode of a device's mode list,
\* whatever the list, and a mode the device runs at is that one; it sets no
\* mode when the list is empty; either way the attach ends Active.
C8_LastModeSelected ==
    /\ \A i \in 1..Len(heap) :
          LET o == heap[i].wlr_output
          IN  IF o.modes = <<>> THEN o.current_mode = <<>>
              ELSE o.current_mode \in {<<>>, <<o.modes[Len(o.modes)]>>}
    /\ Handled("new_output") =>
          /\ Lifecycle = "Active"
          /\ server_output # NULL
          /\ LET o == heap[server_output].wlr_output
              IN  IF o.modes # <<>>
                  THEN /\ Ops("set_mode") = {1}
                       /\ SubSeq(calls[1].arg, 1, 2) = <<o.modes[Len(o.modes)].width,
                                                          o.modes[Len(o.modes)].height>>
                  ELSE Ops("set_mode") = {}

RECURSIVE OpNames(_)
\* The names of the calls of a log other than the diagnostics, in order.
OpNames(c) ==
    IF c = <<>> THEN <<>>
    ELSE IF Head(c).op \in {"log_error", "log_debug"} THEN OpNames(Tail(c))
    ELSE <<Head(c).op>> \o OpNames(Tail(c))

\* C9: whether the load of the cursor theme succeeds or fails, the attach
\* handler that made it sets the cursor image, warps the pointer and ends
\* Active with the record bound and both listeners linked; a failed load adds
\* only the logged diagnostic.
C9_ThemeFailureNonFatal ==
    (Handled("new_output") /\ Ops("xcursor_load") # {}) =>
        /\ OpNames(calls) \in
              {<<"calloc", "layout_add_auto", "xcursor_load", "set_cursor_image",
                 "cursor_warp">>,
               <<"set_mode", "calloc", "layout_add_auto", "xcursor_load",
                 "set_cursor_image", "cursor_warp">>}
        /\ \A i \in Ops("xcursor_load") :
              /\ calls[i].arg[2] \in {0, 1}
              /\ calls[i].arg[2] = 1 <=> Ops("log_error") = {i + 1}
              /\ calls[i].arg[2] = 0 <=> Ops("log_error") = {}
        /\ \A i \in Ops("cursor_warp") : calls[i].arg = <<cursor.x, cursor.y>>
        /\ Lifecycle = "Active"
        /\ server_output \in LiveRecords
        /\ frame_listeners = {server_output}
        /\ destroy_listeners = {server_output}

\* An attach whose theme load failed ended Active, the pointer warped.
C9_AttachedWithoutTheme ==
    /\ Handled("new_output")
    /\ Ops("log_error") # {}
    /\ Ops("set_cursor_image") # {}
    /\ Ops("cursor_warp") # {}
    /\ Lifecycle = "Active"
    /\ ~xcursor_loaded

\* C10: the attach handler warps the pointer to the centre of the device,
\* (width / 2, height / 2) of its dimensions after the mode is set, so to
\* (960, 540) for modes [720p, 1080p], and it does so after the device was
\* added to the output layout.
C10_WarpToCenter ==
    Handled("new_output") =>
        /\ server_output # NULL
        /\ Cardinality(Ops("cursor_warp")) = 1
        /\ LET o == heap[server_output].wlr_output
            IN  /\ 2 * cursor.x \in {o.width - 1, o.width}
                /\ 2 * cursor.y \in {o.height - 1, o.height}
                /\ o.modes = <<M720, M1080>> => cursor.x = 960 /\ cursor.y = 540
                /\ \A w \in Ops("cursor_warp") :
                      /\ calls[w].arg = <<cursor.x, cursor.y>>
                      /\ \E a \in Ops("layout_add_auto") : a < w
                /\ \E i \in 1..Len(layout) :
                      layout[i].output = server_output /\ layout[i].x = 0 /\ layout[i].y = 0

\* The views of the stack whose type the walk does not recognise.
UnknownViews ==
    {i \in 1..Len(views) : views[i].type # CAGE_XDG_SHELL_VIEW}

\* C11: a view of an unrecognised type is walked with no visit: no draw, no
\* frame-done, one error-level diagnostic; the tick goes on, the other views
\* are walked and the pass is ended and swapped.
C11_UnknownViewSkipped ==
    RenderPassRan =>
        /\ \A i \in UnknownViews :
              /\ \A n \in 1..Len(calls) :
                    calls[n].view = views[i].id => calls[n].op = "log_error"
              /\ Cardinality({n \in Ops("log_error") : calls[n].view = views[i].id}) = 1
        /\ Cardinality(Ops("log_error")) = Cardinality(UnknownViews)
        /\ {<<calls[n].view, calls[n].surf>> : n \in Ops("render_texture")}
              = DrawableSurfaces(views)
        /\ Ops("end") = {Len(calls) - 1}
        /\ Ops("swap_buffers") = {Len(calls)}

\* A tick walked a view of an unrecognised type that holds a surface ready to
\* draw, and then drew a surface of a recognised view.
C11_WalkedPastUnknownView ==
    /\ RenderPassRan
    /\ Len(views) = 2
    /\ views[2].type = CAGE_OTHER_VIEW
    /\ views[2].surfaces[1].has_texture
    /\ views[1].type = CAGE_XDG_SHELL_VIEW
    /\ \E e \in Ops("log_error"), d \in Ops("render_texture") :
          e < d /\ calls[e].view = views[2].id /\ calls[d].view = views[1].id

\* The surface <<view id, index>> of the stack.
SurfaceOf(s) ==
    views[StackPos(s[1])].surfaces[s[2]]

\* C12: in a tick a surface is drawn at most once, and only a visited surface
\* that has a buffer and whose texture can be obtained is drawn.
C12_DrawOnlyReady ==
    RenderPassRan =>
        /\ \A n \in Ops("render_texture") :
              /\ <<calls[n].view, calls[n].surf>> \in VisitedSurfaces
              /\ SurfaceOf(<<calls[n].view, calls[n].surf>>).has_buffer
              /\ SurfaceOf(<<calls[n].view, calls[n].surf>>).has_texture
        /\ \A s \in VisitedSurfaces :
              Cardinality(CallsFor("render_texture", s[1], s[2])) <= 1

\* A tick drew one surface of a view and left out a surface of the same view
\* whose texture could not be obtained and one without a buffer.
C12_DrewOneSkippedTwo ==
    /\ RenderPassRan
    /\ \E i \in 1..Len(views) :
          /\ views[i].type = CAGE_XDG_SHELL_VIEW
          /\ \E a, b, c \in 1..Len(views[i].surfaces) :
                /\ views[i].surfaces[a].has_texture
                /\ views[i].surfaces[b].has_buffer /\ ~views[i].surfaces[b].has_texture
                /\ ~views[i].surfaces[c].has_buffer
                /\ Cardinality(CallsFor("render_texture", views[i].id, a)) = 1
                /\ CallsFor("render_texture", views[i].id, b) = {}
                /\ CallsFor("render_texture", views[i].id, c) = {}

\* C13: with an empty view stack a tick whose make_current succeeds makes
\* exactly begin, clear to the fixed gray, end and swap: no draw, no frame-done.
C13_EmptyStackTick ==
    (RenderPassRan /\ views = <<>>) =>
        /\ Len(calls) = 5
        /\ calls[2].op = "begin"
        /\ calls[2].arg = <<heap[server_output].wlr_output.width,
                            heap[server_output].wlr_output.height>>
        /\ calls[3] = Call("clear", 0, 0, <<3, 3, 3, 10>>)
        /\ calls[4].op = "end"
        /\ calls[5].op = "swap_buffers"
        /\ Ops("render_texture") = {}
        /\ Ops("frame_done") = {}

\* A tick rendered the empty stack.
C13_RenderedEmptyStack ==
    /\ RenderPassRan
    /\ views = <<>>
    /\ Lifecycle = "Active"
    /\ Ops("swap_buffers") # {}

\* The origin in the layout of the output the last tick rendered.
LayoutOrigin ==
    LET e == layout[CHOOSE i \in 1..Len(layout) : layout[i].output = server_output]
    IN  <<e.x, e.y>>

\* The placement rectangle of the draw at position n of the log.
BoxOf(n) ==
    SubSeq(calls[n].arg, 1, 4)

C15_PassWholeOrAbsent ==
    Handled("frame") =>
        /\ Ops("make_current") = {1}
        /\ RenderPassRefused =>
              \A n \in 2..Len(calls) : calls[n].op \notin RenderOps
        /\ RenderPassRan =>
              /\ Len(calls) >= 5
              /\ Ops("begin") = {2}
              /\ Ops("clear") = {3}
              /\ Ops("end") = {Len(calls) - 1}
              /\ Ops("swap_buffers") = {Len(calls)}
              /\ \A n \in Ops("render_texture") \cup Ops("frame_done") :
                    3 < n /\ n < Len(calls) - 1
              /\ Cardinality(Ops("render_texture")) = Cardinality(DrawableSurfaces(views))
        /\ RenderPassRefused \/ RenderPassRan

\* A tick drew two surfaces between its clear and its end.
C15_PassWithTwoDraws ==
    /\ RenderPassRan
    /\ Cardinality(Ops("render_texture")) >= 2
    /\ calls[Len(calls)].op = "swap_buffers"

\* C16: the teardown unlinks both listeners of the record, frees the record
\* and clears server->output before it calls wl_display_terminate: at that
\* call the server holds no reference and no listener of the record is linked.
C16_TerminateLast ==
    Handled("destroy") =>
        /\ Ops("display_terminate") = {Len(calls)}
        /\ calls[Len(calls)].arg = <<NULL, 0, 0, 1>>
        /\ Cardinality(Ops("list_remove_destroy")) = 1
        /\ Cardinality(Ops("list_remove_frame")) = 1
        /\ Cardinality(Ops("free")) = 1
        /\ server_output = NULL
        /\ frame_listeners = {}
        /\ destroy_listeners = {}

\* The teardown ran and ended with the call of wl_display_terminate.
C16_TornDown ==
    /\ Handled("destroy")
    /\ Len(calls) = 4
    /\ calls[4].op = "display_terminate"
    /\ heap[1].frees = 1

\* C17: the handlers of device-attach, refresh tick and device-removed leave
\* the view stack as it is: its views, their order, positions, types and
\* surfaces.
C17_ViewsReadOnly ==
    [][event' \in {"new_output", "frame", "destroy"} => views' = views]_vars

\* The teardown ran with a raised stack of two views in place.
C17_HandlersRanOverStack ==
    /\ Handled("destroy")
    /\ Len(views) = 2
    /\ views[1].id = 1
    /\ views[2].id = 2

\* C18: in every state the lifecycle is Active exactly when server->output is
\* set, exactly when the frame and the destroy listener of the record are
\* linked, exactly when the attach listener is unlinked and
\* wl_display_terminate was not called; otherwise the slot is empty and no
\* listener of a record is linked.
C18_ActiveEquivalences ==
    /\ Lifecycle = "Active" <=> server_output # NULL
    /\ Lifecycle = "Active" <=> (frame_listeners # {} /\ destroy_listeners # {})
    /\ Lifecycle = "Active" <=> (~new_output_link /\ terminated = 0)
    /\ Lifecycle = "Active" =>
          /\ server_output \in LiveRecords
          /\ frame_listeners = {server_output}
          /\ destroy_listeners = {server_output}
    /\ Lifecycle # "Active" =>
          /\ server_output = NULL
          /\ frame_listeners = {}
          /\ destroy_listeners = {}

\* After the teardown a view was mapped: the slot is empty, no listener linked.
C18_DestroyedAndIdle ==
    /\ Lifecycle = "Destroyed"
    /\ event = "view"
    /\ server_output = NULL
    /\ frame_listeners = {}
    /\ ~new_output_link

\* C19: in a tick a surface gets frame-done exactly when it was drawn, and
\* the frame-done is the call right after its draw.
C19_FrameDoneFollowsDraw ==
    RenderPassRan =>
        /\ \A n \in Ops("render_texture") :
              calls[n + 1] = Call("frame_done", calls[n].view, calls[n].surf, <<>>)
        /\ \A n \in Ops("frame_done") :
              /\ calls[n - 1].op = "render_texture"
              /\ calls[n - 1].view = calls[n].view
              /\ calls[n - 1].surf = calls[n].surf
        /\ \A s \in VisitedSurfaces :
              Cardinality(CallsFor("frame_done", s[1], s[2]))
                 = Cardinality(CallsFor("render_texture", s[1], s[2]))

\* A tick drew a surface and sent it frame-done, and sent none to a surface
\* whose texture could not be obtained.
C19_UndrawnGotNoFrameDone ==
    /\ RenderPassRan
    /\ Ops("frame_done") # {}
    /\ \E s \in VisitedSurfaces :
          /\ SurfaceOf(s).has_buffer
          /\ ~SurfaceOf(s).has_texture
          /\ CallsFor("frame_done", s[1], s[2]) = {}

====
